---- MODULE Spec2Model ----
(***************************************************************************)
(* A model of the controlled-option crate: the Niche trait, its           *)
(* implementations for references and the NonZero integer types, the      *)
(* ControlledOption wrapper, and the #[derive(Niche)] procedural macro     *)
(* together with the implementation it emits for a struct.                 *)
(*                                                                         *)
(* Values of a type T are kept apart from values of T::Output: a NonZero   *)
(* integer is the record [NonZero |-> n], a reference is [ref |-> a], and  *)
(* their Output is the bare integer / address.  The storage of a derived  *)
(* struct (MaybeUninit<Self>) is a sequence of cells, one per field, each  *)
(* cell the little-endian bytes of that field.  Memory that was never      *)
(* written holds arbitrary bytes.                                          *)
(***************************************************************************)
EXTENDS Integers, Sequences, FiniteSets, TLC

\* Largest number of fields of a struct handed to the derive macro.
MaxFields == 2

\* Number of distinct referents a reference may point to.
MaxAddr == 2

(***************************************************************************)
(* Types with a Niche implementation in src/lib.rs                         *)
(***************************************************************************)

RefTypes == {"&T", "&mut T"}

NonZeroTypes ==
    {"NonZeroI8", "NonZeroI16", "NonZeroI32", "NonZeroI64", "NonZeroIsize",
     "NonZeroU8", "NonZeroU16", "NonZeroU32", "NonZeroU64", "NonZeroUsize"}

PrimTypes == RefTypes \cup NonZeroTypes

\* The integer (or raw pointer) type that is the Output of each implementation.
OutputType(t) ==
    CASE t = "&T"           -> "*const T"
      [] t = "&mut T"       -> "*mut T"
      [] t = "NonZeroI8"    -> "i8"
      [] t = "NonZeroI16"   -> "i16"
      [] t = "NonZeroI32"   -> "i32"
      [] t = "NonZeroI64"   -> "i64"
      [] t = "NonZeroIsize" -> "isize"
      [] t = "NonZeroU8"    -> "u8"
      [] t = "NonZeroU16"   -> "u16"
      [] t = "NonZeroU32"   -> "u32"
      [] t = "NonZeroU64"   -> "u64"
      [] t = "NonZeroUsize" -> "usize"

\* Size in bytes of a type (64-bit target: pointers and isize/usize are 8 bytes).
SizeOf(t) ==
    CASE t \in {"NonZeroI8", "NonZeroU8", "i8", "u8"}       -> 1
      [] t \in {"NonZeroI16", "NonZeroU16", "i16", "u16"}   -> 2
      [] t \in {"NonZeroI32", "NonZeroU32", "i32", "u32"}   -> 4
      [] OTHER                                              -> 8

\* std::alloc::Layout::new::<t>(): size and alignment.
Layout(t) == [size |-> SizeOf(t), align |-> SizeOf(t)]

Signed(t) ==
    t \in {"NonZeroI8", "NonZeroI16", "NonZeroI32", "NonZeroI64", "NonZeroIsize",
           "i8", "i16", "i32", "i64", "isize"}

\* Whether the integer n is a value of the integer type underlying t.
InRange(t, n) ==
    CASE SizeOf(t) = 1 -> IF Signed(t) THEN n >= -128 /\ n <= 127
                                       ELSE n >= 0 /\ n <= 255
      [] SizeOf(t) = 2 -> IF Signed(t) THEN n >= -32768 /\ n <= 32767
                                       ELSE n >= 0 /\ n <= 65535
      [] OTHER         -> IF Signed(t) THEN TRUE ELSE n >= 0

\* Integers the inputs are drawn from: the edges of the 8 and 16 bit types,
\* the numbers of the test suite, and zero.
IntSamples ==
    {-32768, -129, -128, -1, 0, 1, 75, 125, 127, 128, 255, 256, 32767, 65535,
     2147483647}

\* Addresses of live, aligned u32 referents.
Addrs == {4 * k : k \in 1..MaxAddr}

\* The valid values of type t: NonZero integers are never zero, references
\* are never null.
Values(t) ==
    IF t \in RefTypes
    THEN {[ref |-> a] : a \in Addrs}
    ELSE {[NonZero |-> n] : n \in {m \in IntSamples : m # 0 /\ InRange(t, m)}}

(***************************************************************************)
(* impl Niche for &T, &mut T, NonZero*                                     *)
(***************************************************************************)

\* A sentinel with every bit set instead of none.
Prim_none_all_ones(t) == -1

\* std::ptr::null() / null_mut() for references, the literal 0 for integers.
Prim_none(t) == 0

\* value.is_null() for references, *value == 0 for integers.
Prim_is_none(t, value) == value = 0

\* A conversion that keeps only the low byte of the integer.
Prim_into_some_low_byte(t, value) ==
    IF t \in RefTypes THEN value.ref ELSE value.NonZero % 256

\* A reference coerces to the raw pointer holding its address; value.get()
\* reads the integer out of a NonZero.
Prim_into_some(t, value) ==
    IF t \in RefTypes THEN value.ref ELSE value.NonZero

\* &*value / &mut *value for references, Self::new_unchecked(value) for
\* integers.
Prim_from_some(t, value) ==
    IF t \in RefTypes THEN [ref |-> value] ELSE [NonZero |-> value]

(***************************************************************************)
(* Memory representation                                                   *)
(***************************************************************************)

RECURSIVE ToBytes(_, _)
\* The size little-endian bytes of the two's complement integer n.
ToBytes(n, size) ==
    IF size = 0 THEN <<>> ELSE <<n % 256>> \o ToBytes(n \div 256, size - 1)

RECURSIVE Unsigned(_)
Unsigned(bytes) ==
    IF bytes = <<>> THEN 0 ELSE Head(bytes) + 256 * Unsigned(Tail(bytes))

\* The integer that little-endian bytes hold, read as signed or unsigned.
FromBytes(bytes, signed) ==
    IF signed /\ bytes[Len(bytes)] >= 128
    THEN -(1 + Unsigned([i \in 1..Len(bytes) |-> 255 - bytes[i]]))
    ELSE Unsigned(bytes)

\* The bytes of a value of type t as it lies in memory: a NonZero is laid
\* out as its integer, a reference as its address.
ReprOf(t, v) ==
    ToBytes(IF t \in RefTypes THEN v.ref ELSE v.NonZero, SizeOf(t))

\* Reading the bytes without regard to the sign of the integer type.
ValueAt_unsigned(t, bytes) ==
    IF t \in RefTypes THEN [ref |-> FromBytes(bytes, FALSE)]
                      ELSE [NonZero |-> FromBytes(bytes, FALSE)]

\* Reading bytes in memory as a value of type t.
ValueAt(t, bytes) ==
    IF t \in RefTypes THEN [ref |-> FromBytes(bytes, FALSE)]
                      ELSE [NonZero |-> FromBytes(bytes, Signed(t))]

(***************************************************************************)
(* #[derive(Niche)]: controlled-option-macros/src/lib.rs                   *)
(***************************************************************************)

\* Attribute lists a field may carry: none, #[niche], another attribute,
\* or another attribute followed by #[niche].
AttrLists == {<<>>, <<"niche">>, <<"doc">>, <<"doc", "niche">>}

\* Types of the fields of the structs handed to the macro.
FieldTypes == {"NonZeroU32", "NonZeroI8", "&T"}

\* Names of the fields of a regular struct, in declaration order.
Idents == <<"a", "b", "c", "d", "e", "f">>

\* Field lists as written by the user, before they get their identity.
RawFields(attrLists) ==
    UNION {[1..n -> [attrs : attrLists, ty : FieldTypes]] : n \in 0..MaxFields}

\* syn::Field: ident is Some(name) in a regular struct (a one-element
\* sequence) and None in a tuple struct (the empty sequence).
NamedFieldLists(attrLists) ==
    {[i \in 1..Len(f) |->
        [attrs |-> f[i].attrs, ident |-> <<Idents[i]>>, ty |-> f[i].ty]] :
     f \in RawFields(attrLists)}

UnnamedFieldLists(attrLists) ==
    {[i \in 1..Len(f) |->
        [attrs |-> f[i].attrs, ident |-> <<>>, ty |-> f[i].ty]] :
     f \in RawFields(attrLists)}

\* syn::Item as parsed from the macro input: `struct S { .. }` is
\* Fields::Named, `struct S(..);` is Fields::Unnamed, `struct S;` is
\* Fields::Unit, whatever the number of fields; anything else is not a struct.
ItemsOver(attrLists) ==
    {[kind |-> "Struct", shape |-> "Named", fields |-> l] :
        l \in NamedFieldLists(attrLists)}
    \cup
    {[kind |-> "Struct", shape |-> "Unnamed", fields |-> l] :
        l \in UnnamedFieldLists(attrLists)}
    \cup
    {[kind |-> "Struct", shape |-> "Unit", fields |-> <<>>],
     [kind |-> "Enum", shape |-> "Unit", fields |-> <<>>]}

\* The inputs the macro is run on.
Items == ItemsOver(AttrLists)

\* A tuple struct around one marked field of type t.
Newtype(t) ==
    [kind |-> "Struct", shape |-> "Unnamed",
     fields |-> <<[attrs |-> <<"niche">>, ident |-> <<>>, ty |-> t]>>]

\* The structs of the programs that are run: a field is either plain or
\* marked #[niche]; every type with a supplied impl is the marked field of
\* some struct.
ProgramItems ==
    ItemsOver({<<>>, <<"niche">>}) \cup {Newtype(t) : t \in PrimTypes}

\* The item of a program that derives nothing.
NoItem == [kind |-> "None", shape |-> "Unit", fields |-> <<>>]

MsgMissingNiche == "#[derive(Niche)] requires a field marked #[niche]"

MsgEmptyStruct == "#[derive(Niche)] cannot be used on an empty tuple struct"

MsgNotStruct == "#[derive(Niche)] is only supported on struct types"

RECURSIVE AttrsHaveNiche(_, _)
AttrsHaveNiche(attrs, i) ==
    IF i > Len(attrs) THEN FALSE
    ELSE IF attrs[i] = "niche" THEN TRUE
    ELSE AttrsHaveNiche(attrs, i + 1)

\* A scan that accepts a field carrying any attribute at all.
field_has_attr(field) == Len(field.attrs) > 0

\* for attr in &field.attrs { if attr.path.is_ident("niche") { return true } }
field_is_niche(field) == AttrsHaveNiche(field.attrs, 1)

RECURSIVE FindFrom(_, _)
FindFrom(fields, i) ==
    IF i > Len(fields) THEN 0
    ELSE IF field_is_niche(fields[i]) THEN i
    ELSE FindFrom(fields, i + 1)

\* The position a mutated scan would return: the last marked field.
FindLast(fields) ==
    IF \E i \in 1..Len(fields) : AttrsHaveNiche(fields[i].attrs, 1)
    THEN CHOOSE i \in 1..Len(fields) :
            /\ AttrsHaveNiche(fields[i].attrs, 1)
            /\ \A j \in (i + 1)..Len(fields) : ~AttrsHaveNiche(fields[j].attrs, 1)
    ELSE 0

\* Iterator::find(field_is_niche) over the fields in declaration order: the
\* 1-based position of the first field the predicate accepts, 0 for None.
Find(fields) == FindFrom(fields, 1)

\* syn::Member
MemberNamed(ident) == [Named |-> ident]

MemberUnnamed(index) == [Unnamed |-> index]

CompileError(msg) == [kind |-> "error", msg |-> msg]

\* The emitted `impl Niche for #ty_name`, determined by the two things the
\* macro interpolates into it.
EmittedImpl(name, type) ==
    [kind |-> "impl", niche_field_name |-> name, niche_field_type |-> type]

\* pub fn derive_decode(input: TokenStream) -> TokenStream
derive_decode(item) ==
    IF item.kind = "Struct"
    THEN CASE item.shape = "Named" ->
                LET pos == Find(item.fields) IN
                IF pos # 0 /\ item.fields[pos].ident # <<>>
                THEN EmittedImpl(MemberNamed(item.fields[pos].ident[1]),
                                 item.fields[pos].ty)
                ELSE CompileError(MsgMissingNiche)
           [] item.shape = "Unnamed" ->
                LET pos == Find(item.fields) IN
                IF pos # 0
                THEN EmittedImpl(MemberUnnamed(pos - 1), item.fields[pos].ty)
                ELSE CompileError(MsgMissingNiche)
           [] item.shape = "Unit" -> CompileError(MsgEmptyStruct)
    ELSE CompileError(MsgNotStruct)

\* The macro has not run.
NotDerived == [kind |-> "none"]

(***************************************************************************)
(* The emitted implementation and the helpers it calls (src/lib.rs)        *)
(***************************************************************************)

RECURSIVE Product(_)
\* All sequences whose i-th element is drawn from the i-th set.
Product(sets) ==
    IF sets = <<>> THEN {<<>>}
    ELSE {<<h>> \o t : h \in Head(sets), t \in Product(Tail(sets))}

\* Bytes that memory nobody wrote may hold.
Garbage == {0, 75}

\* Self::Output::uninit(): storage of the struct's shape, every cell of
\* which holds arbitrary bytes.
Uninit(fields) ==
    Product([i \in 1..Len(fields) |->
                {ToBytes(g, SizeOf(fields[i].ty)) : g \in Garbage}])

\* The position of the field that `(*ptr).#niche_field_name` names.
FieldAt(fields, member) ==
    IF "Named" \in DOMAIN member
    THEN CHOOSE i \in 1..Len(fields) : fields[i].ident = <<member.Named>>
    ELSE member.Unnamed + 1

\* debug_assert!(Layout::new::<T>() == Layout::new::<T::Output>())
LayoutAssertion(t) == Layout(t) = Layout(OutputType(t))

\* A helper that writes the sentinel over the first field, whichever field
\* was asked for.
fill_first_field_with_none(storage, k, t) ==
    [storage EXCEPT ![1] = ToBytes(Prim_none(t), Len(storage[1]))]

\* fill_struct_field_with_none: the field is written through a pointer to
\* T::Output, so size_of::<T::Output>() bytes are stored at its address.
fill_struct_field_with_none(storage, k, t) ==
    [storage EXCEPT ![k] = ToBytes(Prim_none(t), SizeOf(OutputType(t)))]

\* A helper that inspects the first field, whichever field was asked for.
first_field_is_none(storage, k, t) ==
    Prim_is_none(t, FromBytes(storage[1], FALSE))

\* A helper that reports None as soon as any field holds zero.
any_field_is_none(storage, k, t) ==
    \E i \in DOMAIN storage : \A b \in DOMAIN storage[i] : storage[i][b] = 0

\* struct_field_is_none: the field is read through a pointer to T::Output.
struct_field_is_none(storage, k, t) ==
    Prim_is_none(t, FromBytes(storage[k], Signed(OutputType(t))))

\* A helper that writes without checking the layouts.
fill_struct_field_unasserted_steps(t) == <<"write">>

\* What fill_struct_field_with_none does, in order: the assertion, then,
\* unless it panicked, the write.
fill_struct_field_with_none_steps(t) ==
    <<"debug_assert">> \o IF LayoutAssertion(t) THEN <<"write">> ELSE <<>>

\* What struct_field_is_none does, in order: the assertion, then, unless it
\* panicked, the read.
struct_field_is_none_steps(t) ==
    <<"debug_assert">> \o IF LayoutAssertion(t) THEN <<"read">> ELSE <<>>

\* fn none() of the emitted impl, on freshly allocated storage u.
Derived_none(fields, impl, u) ==
    fill_struct_field_with_none(u, FieldAt(fields, impl.niche_field_name),
                                impl.niche_field_type)

\* fn is_none() of the emitted impl.
Derived_is_none(fields, impl, value) ==
    struct_field_is_none(value, FieldAt(fields, impl.niche_field_name),
                         impl.niche_field_type)

\* fn into_some() of the emitted impl: MaybeUninit::new(value) holds the
\* struct as it lies in memory.
Derived_into_some(fields, value) ==
    [i \in 1..Len(fields) |-> ReprOf(fields[i].ty, value[i])]

\* fn from_some() of the emitted impl: value.assume_init() reads the
\* storage as the struct.
Derived_from_some(fields, value) ==
    [i \in 1..Len(fields) |-> ValueAt(fields[i].ty, value[i])]

\* Field values the structs are built from.
FieldValues(t) ==
    IF t \in RefTypes THEN Values(t)
    ELSE {v \in Values(t) : v.NonZero \in {-1, 75, 125}}

\* The valid values of a struct: every field holds a valid value of its type.
StructValues(fields) ==
    Product([i \in 1..Len(fields) |-> FieldValues(fields[i].ty)])

(***************************************************************************)
(* State                                                                   *)
(***************************************************************************)

VARIABLES
    T,          \* the type the program instantiates ControlledOption with
    item,       \* the struct definition handed to #[derive(Niche)]
    output,     \* what derive_decode returned for it
    co,         \* the ControlledOption last built: [value |-> T::Output]
    arg,        \* the argument of the last constructor call
    ret,        \* the Option<T> that co.into_option() returned
    op,         \* the last step: the macro expansion, or the call that built co
    obs,        \* the last method called on co, its operands and its result
    steps,      \* what the helpers of the emitted impl did during the last call
    panicked    \* a debug_assert! failed

vars == <<T, item, output, co, arg, ret, op, obs, steps, panicked>>

\* Types ControlledOption is instantiated with: "Derived" is the struct in
\* item, with the implementation in output.
DerivedType == "Derived"

\* std::option::Option<T>
OptNone == [tag |-> "None"]

OptSome(v) == [tag |-> "Some", val |-> v]

\* The call panicked in an assert! and returned nothing.
Unwound == [tag |-> "panic"]

\* No value of this kind exists yet.
Absent == [tag |-> "absent"]

ValuesOf(t) == IF t = DerivedType THEN StructValues(item.fields) ELSE Values(t)

\* What freshly allocated storage can hold when T::none() runs; the
\* implementations for references and integers allocate nothing.
FreshStorage(t) == IF t = DerivedType THEN Uninit(item.fields) ELSE {<<>>}

\* <T as Niche>::none()
Niche_none(t, u) ==
    IF t = DerivedType THEN Derived_none(item.fields, output, u)
                       ELSE Prim_none(t)

\* <T as Niche>::is_none(&value)
Niche_is_none(t, value) ==
    IF t = DerivedType THEN Derived_is_none(item.fields, output, value)
                       ELSE Prim_is_none(t, value)

\* <T as Niche>::into_some(value)
Niche_into_some(t, value) ==
    IF t = DerivedType THEN Derived_into_some(item.fields, value)
                       ELSE Prim_into_some(t, value)

\* <T as Niche>::from_some(value)
Niche_from_some(t, value) ==
    IF t = DerivedType THEN Derived_from_some(item.fields, value)
                       ELSE Prim_from_some(t, value)

\* The debug assertions that run inside <T as Niche>::none() and ::is_none():
\* only the emitted impl has one, in the helper it calls.
Niche_assertions(t) ==
    IF t = DerivedType THEN LayoutAssertion(output.niche_field_type) ELSE TRUE

\* What <T as Niche>::none() has its helper do: the supplied impls call none.
Niche_none_steps(t) ==
    IF t = DerivedType
    THEN fill_struct_field_with_none_steps(output.niche_field_type)
    ELSE <<>>

\* What <T as Niche>::is_none() has its helper do.
Niche_is_none_steps(t) ==
    IF t = DerivedType
    THEN struct_field_is_none_steps(output.niche_field_type)
    ELSE <<>>

(***************************************************************************)
(* ControlledOption<T>                                                     *)
(***************************************************************************)

\* ControlledOption { value }
CO(value) == [tag |-> "ControlledOption", value |-> value]

\* pub fn is_none(&self) -> bool
CO_is_none(self) == Niche_is_none(T, self.value)

\* pub fn is_some(&self) -> bool
CO_is_some(self) == ~Niche_is_none(T, self.value)

\* pub fn none(): the wrapper built and whether its debug_assert! held.
CO_none(u) ==
    LET value == Niche_none(T, u) IN
    [co |-> CO(value), ok |-> Niche_assertions(T) /\ Niche_is_none(T, value),
     steps |-> Niche_none_steps(T) \o
               IF Niche_assertions(T) THEN Niche_is_none_steps(T) ELSE <<>>]

\* pub fn some(value: T)
CO_some(v) ==
    LET value == Niche_into_some(T, v) IN
    [co |-> CO(value), ok |-> Niche_assertions(T) /\ ~Niche_is_none(T, value),
     steps |-> Niche_is_none_steps(T)]

\* impl From<Option<T>> for ControlledOption<T>
CO_from(o, u) ==
    IF o.tag = "Some" THEN CO_some(o.val) ELSE CO_none(u)

\* A conversion that never looks at the sentinel.
CO_into_unchecked(self) == OptSome(Niche_from_some(T, self.value))

\* impl Into<Option<T>> for ControlledOption<T>
CO_into(self) ==
    IF Niche_is_none(T, self.value) THEN OptNone
    ELSE OptSome(Niche_from_some(T, self.value))

\* self.value.clone(): integers and raw pointers are copied; a
\* MaybeUninit<Self> is copied byte for byte.
Output_clone(value) == value

\* A formatter that takes the value out of the storage whatever it holds.
CO_fmt_unchecked(self) ==
    [out |-> <<"ControlledOption::Some",
               Niche_from_some(T, Output_clone(self.value))>>,
     from_some |-> <<Output_clone(self.value)>>]

\* impl Debug for ControlledOption<T>: what is written to the formatter,
\* and the storage values from_some was called on while doing so.
CO_fmt(self) ==
    IF CO_is_none(self)
    THEN [out |-> <<"ControlledOption::None">>, from_some |-> <<>>]
    ELSE [out |-> <<"ControlledOption::Some",
                    Niche_from_some(T, Output_clone(self.value))>>,
          from_some |-> <<Output_clone(self.value)>>]

\* std::cmp::Ordering of two integers or two addresses.
Ordering(a, b) ==
    IF a < b THEN "Less" ELSE IF a = b THEN "Equal" ELSE "Greater"

\* PartialEq of the integer and raw pointer types.
Output_PartialEq(m, a, b) ==
    CASE m = "eq" -> a = b
      [] m = "ne" -> a # b

\* PartialOrd of the integer and raw pointer types.
Output_PartialOrd(m, a, b) ==
    CASE m = "partial_cmp" -> OptSome(Ordering(a, b))
      [] m = "lt" -> a < b
      [] m = "le" -> a <= b
      [] m = "gt" -> a > b
      [] m = "ge" -> a >= b

\* Ord of the integer and raw pointer types: max returns its second
\* operand unless the first is greater, min its first unless the second is
\* less.
Output_Ord(m, a, b) ==
    CASE m = "cmp" -> Ordering(a, b)
      [] m = "max" -> IF Ordering(a, b) = "Greater" THEN a ELSE b
      [] m = "min" -> IF Ordering(a, b) = "Greater" THEN b ELSE a

\* Ord::clamp: assert!(min <= max), then the nearest value in the range.
Output_clamp(a, min, max) ==
    [ok |-> min <= max,
     value |-> IF a < min THEN min ELSE IF a > max THEN max ELSE a]

\* Hash of the integer and raw pointer types: the bytes of the value are
\* written to the hasher, whose state is the bytes written so far.
Output_hash(t, value, state) == state \o ToBytes(value, SizeOf(OutputType(t)))

\* impl Clone for ControlledOption<T>
CO_clone(self) == CO(Output_clone(self.value))

\* impl PartialEq for ControlledOption<T>: eq, ne
CO_PartialEq(m, self, other) == Output_PartialEq(m, self.value, other.value)

\* impl PartialOrd for ControlledOption<T>: partial_cmp, lt, le, gt, ge
CO_PartialOrd(m, self, other) == Output_PartialOrd(m, self.value, other.value)

\* An ordering like that of Option<T>: None before every Some.
CO_Ord_none_first(m, self, other) ==
    CASE m = "cmp" ->
            IF CO_is_none(self) /\ CO_is_none(other) THEN "Equal"
            ELSE IF CO_is_none(self) THEN "Less"
            ELSE IF CO_is_none(other) THEN "Greater"
            ELSE Output_Ord("cmp", self.value, other.value)
      [] m \in {"max", "min"} -> CO(Output_Ord(m, self.value, other.value))

\* impl Ord for ControlledOption<T>: cmp, max, min
CO_Ord(m, self, other) ==
    CASE m = "cmp" -> Output_Ord("cmp", self.value, other.value)
      [] m \in {"max", "min"} -> CO(Output_Ord(m, self.value, other.value))

\* impl Ord for ControlledOption<T>: clamp
CO_clamp(self, min, max) ==
    LET r == Output_clamp(self.value, min.value, max.value) IN
    [ok |-> r.ok, co |-> CO(r.value)]

\* impl Hash for ControlledOption<T>
CO_hash(self, state) == Output_hash(T, self.value, state)

\* The wrappers the binary methods are given as their other operands.
Operands(t) ==
    {CO_none(<<>>).co} \cup {CO_some(v).co : v \in FieldValues(t)}

\* The states a hasher is in when the wrapper is hashed.
HasherStates == {<<>>, <<255>>}

(***************************************************************************)
(* Actions                                                                 *)
(***************************************************************************)

\* A program either uses one of the implementations the crate supplies, or
\* derives one for a struct of its own.
Init ==
    /\ \/ T \in PrimTypes /\ item = NoItem
       \/ T = DerivedType /\ item \in ProgramItems
    /\ output = NotDerived
    /\ co = Absent
    /\ arg = Absent
    /\ ret = Absent
    /\ op = "start"
    /\ obs = Absent
    /\ steps = <<>>
    /\ panicked = FALSE

\* The compiler expands #[derive(Niche)] on the struct.
Derive ==
    /\ T = DerivedType
    /\ output = NotDerived
    /\ output' = derive_decode(item)
    /\ op' = "derive"
    /\ UNCHANGED <<T, item, co, arg, ret, obs, steps, panicked>>

\* The program compiles and runs: Niche is implemented for T.
Runs ==
    /\ ~panicked
    /\ T \in PrimTypes \/ output.kind = "impl"

\* The state after a constructor built r.co: its debug_assert! passes, or
\* panics with the value built.  A run builds one wrapper and then calls
\* its methods; what a constructor builds does not depend on earlier calls.
Built(r, name, a) ==
    /\ co = Absent
    /\ co' = r.co
    /\ panicked' = ~r.ok
    /\ arg' = a
    /\ op' = name
    /\ ret' = Absent
    /\ obs' = Absent
    /\ steps' = r.steps
    /\ UNCHANGED <<T, item, output>>

\* ControlledOption::<T>::none()
None ==
    /\ Runs
    /\ \E u \in FreshStorage(T) : Built(CO_none(u), "none", Absent)

\* ControlledOption::some(v)
Some ==
    /\ Runs
    /\ \E v \in ValuesOf(T) : Built(CO_some(v), "some", v)

\* ControlledOption::from_option(o)
FromOption ==
    /\ Runs
    /\ \E o \in {OptNone} \cup {OptSome(v) : v \in ValuesOf(T)} :
       \E u \in IF o.tag = "Some" THEN {<<>>} ELSE FreshStorage(T) :
          Built(CO_from(o, u), "from_option", o)

\* co.into_option()
IntoOption ==
    /\ Runs
    /\ co # Absent
    /\ ret = Absent
    /\ ret' = CO_into(co)
    /\ obs' = Absent
    /\ steps' = Niche_is_none_steps(T)
    /\ UNCHANGED <<T, item, output, co, arg, op, panicked>>

\* A method of co returned: what was called, on what, and what came back.
Observation(method, operands, result) ==
    [method |-> method, operands |-> operands, result |-> result]

\* The state after a method that borrows co returned o.
Observed(o, st) ==
    /\ Runs
    /\ co # Absent
    /\ obs' = o
    /\ steps' = st
    /\ ret' = Absent
    /\ UNCHANGED <<T, item, output, co, arg, op, panicked>>

\* co.is_none()
IsNone ==
    Observed(Observation("is_none", <<>>, CO_is_none(co)),
             Niche_is_none_steps(T))

\* co.is_some()
IsSome ==
    Observed(Observation("is_some", <<>>, CO_is_some(co)),
             Niche_is_none_steps(T))

\* format!("{:?}", co)
Fmt ==
    Observed(Observation("fmt", <<>>, CO_fmt(co)), Niche_is_none_steps(T))

\* co.clone()
Clone == Observed(Observation("clone", <<>>, CO_clone(co)), <<>>)

\* co == b, co != b: the Output of the supplied impls is PartialEq, that of
\* the emitted impl is not.
PartialEq ==
    /\ T \in PrimTypes
    /\ \E m \in {"eq", "ne"} : \E b \in Operands(T) :
          Observed(Observation(m, <<b>>, CO_PartialEq(m, co, b)), <<>>)

\* co.partial_cmp(&b), co < b, co <= b, co > b, co >= b
PartialOrd ==
    /\ T \in PrimTypes
    /\ \E m \in {"partial_cmp", "lt", "le", "gt", "ge"} :
       \E b \in Operands(T) :
          Observed(Observation(m, <<b>>, CO_PartialOrd(m, co, b)), <<>>)

\* co.cmp(&b), co.max(b), co.min(b)
Ord ==
    /\ T \in PrimTypes
    /\ \E m \in {"cmp", "max", "min"} : \E b \in Operands(T) :
          Observed(Observation(m, <<b>>, CO_Ord(m, co, b)), <<>>)

\* co.clamp(min, max): the call returns a wrapper, or unwinds from the
\* assert! of Ord::clamp when min > max.
Clamp ==
    /\ T \in PrimTypes
    /\ \E min \in Operands(T) : \E max \in Operands(T) :
          LET r == CO_clamp(co, min, max) IN
          Observed(Observation("clamp", <<min, max>>,
                               IF r.ok THEN r.co ELSE Unwound), <<>>)

\* co.hash(&mut hasher)
Hash ==
    /\ T \in PrimTypes
    /\ \E h \in HasherStates :
          Observed(Observation("hash", <<h>>, CO_hash(co, h)), <<>>)

Next ==
    \/ Derive \/ None \/ Some \/ FromOption \/ IntoOption
    \/ IsNone \/ IsSome \/ Fmt
    \/ Clone \/ PartialEq \/ PartialOrd \/ Ord \/ Clamp \/ Hash

Spec == Init /\ [][Next]_vars

\* The macro alone, on every struct shape.
InitDerive ==
    /\ T = DerivedType
    /\ item \in Items
    /\ output = NotDerived
    /\ co = Absent
    /\ arg = Absent
    /\ ret = Absent
    /\ op = "start"
    /\ obs = Absent
    /\ steps = <<>>
    /\ panicked = FALSE

NextDerive == Derive

DeriveSpec == InitDerive /\ [][NextDerive]_vars

(***************************************************************************)
(* Properties of the wrapper and of the implementations                    *)
(***************************************************************************)

\* C1: ControlledOption::none() never fails its debug assertion and returns
\* a wrapper for which is_none() is true and is_some() is false, for the
\* supplied implementations and for derived structs.
C1_NoneIsNone ==
    op = "none" => /\ ~panicked
                   /\ CO_is_none(co)
                   /\ ~CO_is_some(co)

\* none() was called on a derived struct whose niche is not its first field.
C1_Witness ==
    /\ op = "none"
    /\ T = DerivedType
    /\ co # Absent
    /\ FieldAt(item.fields, output.niche_field_name) > 1

\* C2: ControlledOption::some(v) never fails its debug assertion and returns
\* a wrapper for which is_some() is true and is_none() is false, for every
\* valid v.
C2_SomeIsSome ==
    op = "some" => /\ ~panicked
                   /\ CO_is_some(co)
                   /\ ~CO_is_none(co)

\* some(v) was called on an integer whose low byte is zero.
C2_Witness ==
    /\ op = "some"
    /\ T \in NonZeroTypes
    /\ co # Absent
    /\ arg.NonZero % 256 = 0

\* C3: from_some(into_some(v)) is v, in value and in every byte of its
\* representation.
C3_RoundTrip ==
    (op = "some" /\ ~panicked) =>
        /\ Niche_from_some(T, co.value) = arg
        /\ T \in PrimTypes =>
              ReprOf(T, Niche_from_some(T, co.value)) = ReprOf(T, arg)
        /\ T = DerivedType =>
              \A i \in 1..Len(item.fields) :
                  ReprOf(item.fields[i].ty, Niche_from_some(T, co.value)[i])
                      = ReprOf(item.fields[i].ty, arg[i])

\* some(v) was called on a struct with a negative field.
C3_Witness ==
    /\ op = "some"
    /\ T = DerivedType
    /\ co # Absent
    /\ \E i \in 1..Len(item.fields) :
          item.fields[i].ty = "NonZeroI8" /\ arg[i].NonZero < 0

\* C4: from_option(o).into_option() is o; Some(v) gives a wrapper in the
\* Some state and None a wrapper in the None state.
C4_OptionRoundTrip ==
    op = "from_option" =>
        /\ ~panicked
        /\ arg.tag = "Some" => CO_is_some(co)
        /\ arg.tag = "None" => CO_is_none(co)
        /\ ret # Absent => ret = arg

\* None went through from_option and into_option.
C4_Witness ==
    /\ op = "from_option"
    /\ arg = OptNone
    /\ ret = OptNone

\* C5: for the supplied implementations the None sentinel is zero (the null
\* address for references) in every byte, the Some storage of a NonZero n is
\* n and from_some of it is the NonZero wrapping n, and the Some storage of
\* a reference is its address.
C5_PrimitiveEncoding ==
    (T \in PrimTypes /\ co # Absent) =>
        /\ op = "none" =>
              /\ co.value = 0
              /\ \A b \in 1..SizeOf(OutputType(T)) :
                    ToBytes(co.value, SizeOf(OutputType(T)))[b] = 0
        /\ (op = "some" /\ T \in NonZeroTypes) =>
              /\ co.value = arg.NonZero
              /\ co.value # 0
              /\ ret # Absent => ret = OptSome([NonZero |-> co.value])
        /\ (op = "some" /\ T \in RefTypes) => co.value = arg.ref

\* A NonZero went into a wrapper and came back out of it.
C5_Witness ==
    /\ T \in NonZeroTypes
    /\ op = "some"
    /\ ret # Absent
    /\ ret.tag = "Some"

\* C6: for a derived struct, none() yields storage whose designated field
\* holds that field type's sentinel (all zero bytes) and some(r) yields
\* storage in which every field holds the bytes of the field of r, wherever
\* the designated field stands.
C6_DerivedEncoding ==
    (T = DerivedType /\ co # Absent) =>
        LET fields == item.fields
            marked(i) == \E a \in DOMAIN fields[i].attrs :
                            fields[i].attrs[a] = "niche"
            k == CHOOSE i \in 1..Len(fields) :
                    marked(i) /\ \A j \in 1..(i - 1) : ~marked(j)
        IN /\ op = "none" =>
                /\ co.value[k] = [b \in 1..SizeOf(fields[k].ty) |-> 0]
                /\ FromBytes(co.value[k], Signed(fields[k].ty)) = 0
           /\ op = "some" =>
                /\ Len(co.value) = Len(fields)
                /\ \A i \in 1..Len(fields) :
                      /\ Len(co.value[i]) = SizeOf(fields[i].ty)
                      /\ FromBytes(co.value[i], Signed(fields[i].ty)) =
                            IF fields[i].ty \in RefTypes THEN arg[i].ref
                                                         ELSE arg[i].NonZero

\* none() left garbage that is not the sentinel in a field before the
\* designated one.
C6_Witness ==
    /\ T = DerivedType
    /\ op = "none"
    /\ co # Absent
    /\ FieldAt(item.fields, output.niche_field_name) = 2
    /\ co.value[1][1] # 0

(***************************************************************************)
(* Properties of the macro                                                 *)
(***************************************************************************)

\* C7: a struct without fields, in any of its shapes, is rejected with the
\* error for empty structs.
C7_EmptyStructError ==
    (op = "derive" /\ item.kind = "Struct" /\ item.fields = <<>>) =>
        output = CompileError(MsgEmptyStruct)

\* C8: a struct with fields none of which is marked #[niche] is rejected
\* with the error for a missing marker, and no impl is emitted.
C8_MissingMarkerError ==
    (/\ op = "derive"
     /\ item.kind = "Struct"
     /\ Len(item.fields) >= 1
     /\ \A i \in 1..Len(item.fields) :
           \A a \in DOMAIN item.fields[i].attrs :
               item.fields[i].attrs[a] # "niche") =>
        /\ output.kind # "impl"
        /\ output = CompileError(MsgMissingNiche)

\* The macro ran on a tuple struct whose fields carry other attributes only.
C8_Witness ==
    /\ op = "derive"
    /\ item.kind = "Struct"
    /\ item.shape = "Unnamed"
    /\ Len(item.fields) >= 1
    /\ \A i \in 1..Len(item.fields) : item.fields[i].attrs = <<"doc">>

\* C9: an impl is emitted only when exactly one field is marked #[niche].
C9_ExactlyOneMarker ==
    (op = "derive" /\ output.kind = "impl") =>
        Cardinality({i \in 1..Len(item.fields) :
                        \E a \in DOMAIN item.fields[i].attrs :
                            item.fields[i].attrs[a] = "niche"}) = 1

\* C10: the emitted impl delegates to the first field marked #[niche], by
\* name in a regular struct and by zero-based index in a tuple struct, and
\* to that field's declared type; later marked fields play no part.
C10_FirstMarkedField ==
    (op = "derive" /\ output.kind = "impl") =>
        LET fields == item.fields
            marked(i) == \E a \in DOMAIN fields[i].attrs :
                            fields[i].attrs[a] = "niche"
            k == CHOOSE i \in 1..Len(fields) :
                    marked(i) /\ \A j \in 1..(i - 1) : ~marked(j)
        IN /\ \E i \in 1..Len(fields) : marked(i)
           /\ item.shape = "Named" =>
                 output.niche_field_name = [Named |-> Idents[k]]
           /\ item.shape = "Unnamed" =>
                 output.niche_field_name = [Unnamed |-> k - 1]
           /\ output.niche_field_type = fields[k].ty

\* The macro ran on a tuple struct with two marked fields of different types.
C10_Witness ==
    /\ op = "derive"
    /\ output.kind = "impl"
    /\ item.shape = "Unnamed"
    /\ Len(item.fields) >= 2
    /\ item.fields[1].attrs = <<"doc", "niche">>
    /\ item.fields[2].attrs = <<"niche">>
    /\ item.fields[1].ty # item.fields[2].ty

(***************************************************************************)
(* Properties of the methods of the wrapper                                *)
(***************************************************************************)

\* C11: for a derived struct, is_none is the field type's is_none of the
\* bytes of the designated field, and every storage that agrees with it on
\* that field gives the same answer, whatever its other fields hold.
C11_IsNoneReadsNicheOnly ==
    (T = DerivedType /\ obs # Absent /\ obs.method = "is_none") =>
        LET fields == item.fields
            marked(i) == \E a \in DOMAIN fields[i].attrs :
                            fields[i].attrs[a] = "niche"
            k == CHOOSE i \in 1..Len(fields) :
                    marked(i) /\ \A j \in 1..(i - 1) : ~marked(j)
            t == fields[k].ty
        IN /\ obs.result =
                 Prim_is_none(t, FromBytes(co.value[k], Signed(OutputType(t))))
           /\ \A u \in Uninit(fields) :
                 Niche_is_none(T, [u EXCEPT ![k] = co.value[k]]) = obs.result

\* is_none() answered false for a struct whose designated field is the
\* second one, so that the first could have been overwritten with zeroes.
C11_Witness ==
    /\ T = DerivedType
    /\ obs # Absent
    /\ obs.method = "is_none"
    /\ obs.result = FALSE
    /\ Len(item.fields) >= 2
    /\ FieldAt(item.fields, output.niche_field_name) = 2

\* C12: Debug formatting writes the tag "ControlledOption::None" for a
\* wrapper in the None state and calls from_some for it never; from_some is
\* called, on a clone of the storage, only when is_none() is false.
C12_DebugSkipsFromSomeOnNone ==
    (obs # Absent /\ obs.method = "fmt") =>
        /\ CO_is_none(co) =>
              /\ Len(obs.result.out) = 1
              /\ obs.result.out[1] = "ControlledOption::None"
              /\ obs.result.from_some = <<>>
        /\ ~CO_is_none(co) =>
              /\ Len(obs.result.out) = 2
              /\ obs.result.out[1] = "ControlledOption::Some"
              /\ obs.result.out[2] = Niche_from_some(T, co.value)
        /\ \A i \in DOMAIN obs.result.from_some :
              /\ ~Niche_is_none(T, obs.result.from_some[i])
              /\ obs.result.from_some[i] = co.value

\* A derived struct in the None state, with garbage in its first field,
\* was formatted.
C12_Witness ==
    /\ T = DerivedType
    /\ obs # Absent
    /\ obs.method = "fmt"
    /\ CO_is_none(co)
    /\ Len(co.value) >= 2
    /\ co.value[1][1] # 0

\* C13: equality, ordering, max, min, clamp, hashing and cloning of
\* wrappers give what the same operation gives on their storage: == is
\* equality of the storages, cmp their order, max / min / clamp the wrapper
\* around the largest / smallest / clamped storage, hash the bytes of the
\* storage, and clone a wrapper with equal storage in the same state.
C13_StructuralOverStorage ==
    obs # Absent =>
        LET m == obs.method
            a == co.value
            b == obs.operands[1].value
            c == obs.operands[2].value
            r == obs.result
            order == IF a < b THEN "Less"
                     ELSE IF a > b THEN "Greater" ELSE "Equal"
        IN /\ m = "eq" => (r <=> a = b)
           /\ m = "ne" => (r <=> a # b)
           /\ m = "partial_cmp" => r = OptSome(order)
           /\ m = "lt" => (r <=> a < b)
           /\ m = "le" => (r <=> a <= b)
           /\ m = "gt" => (r <=> a > b)
           /\ m = "ge" => (r <=> a >= b)
           /\ m = "cmp" => r = order
           /\ m = "max" => r = CO(IF a > b THEN a ELSE b)
           /\ m = "min" => r = CO(IF a < b THEN a ELSE b)
           /\ m = "clamp" =>
                 /\ r = Unwound <=> b > c
                 /\ b <= c => r = CO(IF a < b THEN b ELSE IF a > c THEN c ELSE a)
           /\ m = "hash" =>
                 LET h == obs.operands[1] IN
                 /\ Len(r) = Len(h) + SizeOf(OutputType(T))
                 /\ SubSeq(r, 1, Len(h)) = h
                 /\ FromBytes(SubSeq(r, Len(h) + 1, Len(r)),
                              Signed(OutputType(T))) = a
           /\ m = "clone" =>
                 /\ r.value = a
                 /\ CO_is_none(r) = CO_is_none(co)
                 /\ CO_is_some(r) = CO_is_some(co)

\* A wrapper in the None state was compared with one holding a negative
\* integer, which its storage (zero) is greater than.
C13_Witness ==
    /\ obs # Absent
    /\ obs.method = "cmp"
    /\ CO_is_none(co)
    /\ obs.operands[1].value < 0
    /\ obs.result = "Greater"

\* C14: the helpers of the emitted none() and is_none() assert that the
\* designated field's type and its Output have the same size and alignment
\* before they write or read the field, and the assertion never fails when
\* the field is a reference or a NonZero integer.
C14_LayoutAssertedFirst ==
    (T = DerivedType /\ output.kind = "impl") =>
        LET t == output.niche_field_type IN
        /\ \A i \in DOMAIN steps :
              steps[i] \in {"write", "read"} =>
                  i > 1 /\ steps[i - 1] = "debug_assert"
        /\ (op = "none" /\ obs = Absent /\ ret = Absent) =>
              \E i \in DOMAIN steps : steps[i] = "write"
        /\ (obs # Absent /\ obs.method = "is_none") =>
              \E i \in DOMAIN steps : steps[i] = "read"
        /\ steps # <<>> =>
              /\ ~panicked
              /\ Layout(t).size = Layout(OutputType(t)).size
              /\ Layout(t).align = Layout(OutputType(t)).align

\* none() ran for a struct whose designated field is a NonZeroI64, and
\* wrote and then read that field.
C14_Witness ==
    /\ T = DerivedType
    /\ op = "none"
    /\ obs = Absent
    /\ ret = Absent
    /\ output.kind = "impl"
    /\ output.niche_field_type = "NonZeroI64"
    /\ steps = <<"debug_assert", "write", "debug_assert", "read">>

====
